---- MODULE Spec2Model ----
(***************************************************************************)
(* Model of the Express proxy in server.js: the /price and /history        *)
(* handlers, the two in-memory caches, and the upstream calls at which a   *)
(* handler suspends.  Each action is one synchronous run of handler code   *)
(* between two suspension points (request entry up to the first await,     *)
(* and each resumption after an awaited upstream call).                    *)
(***************************************************************************)
EXTENDS Integers, Sequences, FiniteSets, TLC

VARIABLES
    now,            \* Date.now(), in ms since the start of the process
    ticks,          \* number of clock advances so far
    MOCK_HISTORY,   \* process.env.MOCK_HISTORY === 'true'
    priceCache,     \* Map: key -> price payload
    historyCache,   \* Map: key -> { payload, timestamp }
    inflight,       \* requests suspended at an upstream call
    last,           \* the response sent by the latest handler run, with its request
    nReq,           \* number of requests received so far
    writes          \* the cache writes so far, in order: key, writing request, time

vars ==
    <<now, ticks, MOCK_HISTORY, priceCache, historyCache, inflight, last, nReq, writes>>

----------------------------------------------------------------------------
(* Bounds of the model *)

MaxRequests == 2
MaxTicks == 2
MaxInFlight == 2

(* Program constants *)

CACHE_TTL_MS == 60000
HISTORY_CACHE_TTL_MS == 300000
PRICE_API_BASE == "https://api.binance.com/api/v3/ticker/price"
HISTORY_API_BASE == "https://api.binance.com/api/v3/klines"
AVG_PRICE_URL == "https://api.binance.com/api/v3/avgPrice"

symbolToId ==
    [BTC |-> "BTCUSDT", ETH |-> "ETHUSDT", SOL |-> "SOLUSDT", ASTER |-> "ASTRUSDT"]

----------------------------------------------------------------------------
(* JavaScript values where the code relies on dynamic typing.  A string is *)
(* a sequence of one-character strings.                                    *)

Undefined == [undefined |-> TRUE]
Null == [null |-> TRUE]
NaN == [nan |-> TRUE]
Str(cs) == [str |-> cs]
Num(n) == [num |-> n]

IsStr(v) == "str" \in DOMAIN v
IsNum(v) == "num" \in DOMAIN v

\* JavaScript truthiness, as used by ||, ?. and if
Truthy(v) ==
    IF IsStr(v) THEN v.str # <<>>
    ELSE IF IsNum(v) THEN v.num # 0
    ELSE FALSE

\* a || b
Or(a, b) == IF Truthy(a) THEN a ELSE b

DigitVal ==
    [c \in {"0", "1", "2", "3", "4", "5", "6", "7", "8", "9"} |->
        CASE c = "0" -> 0 [] c = "1" -> 1 [] c = "2" -> 2 [] c = "3" -> 3
          [] c = "4" -> 4 [] c = "5" -> 5 [] c = "6" -> 6 [] c = "7" -> 7
          [] c = "8" -> 8 [] c = "9" -> 9]

RECURSIVE ParseDecimal(_)
ParseDecimal(cs) ==
    IF cs = <<>> THEN 0
    ELSE 10 * ParseDecimal(SubSeq(cs, 1, Len(cs) - 1)) + DigitVal[cs[Len(cs)]]

\* Number(v): strings of decimal digits (the empty string is 0); any other
\* string is NaN.  Signs, fractions and exponents are outside the model.
Number(v) ==
    IF IsNum(v) THEN v
    ELSE IF IsStr(v)
         THEN IF \A i \in 1..Len(v.str) : v.str[i] \in DOMAIN DigitVal
              THEN Num(ParseDecimal(v.str))
              ELSE NaN
    ELSE IF v = Null THEN Num(0)
    ELSE NaN

Add(a, b) == IF IsNum(a) /\ IsNum(b) THEN Num(a.num + b.num) ELSE NaN
Mul(a, b) == IF IsNum(a) /\ IsNum(b) THEN Num(a.num * b.num) ELSE NaN
MathMin(a, b) ==
    IF IsNum(a) /\ IsNum(b) THEN (IF a.num < b.num THEN a ELSE b) ELSE NaN

RECURSIVE Join(_)
Join(cs) == IF cs = <<>> THEN "" ELSE cs[1] \o Join(Tail(cs))

DigitChar == <<"0", "1", "2", "3", "4", "5", "6", "7", "8", "9">>

RECURSIVE NatToString(_)
NatToString(n) ==
    IF n < 10 THEN DigitChar[n + 1]
    ELSE NatToString(n \div 10) \o DigitChar[(n % 10) + 1]

\* `${v}` in a template literal
TemplateStr(v) ==
    IF IsStr(v) THEN Join(v.str)
    ELSE IF IsNum(v)
         THEN (IF v.num < 0 THEN "-" \o NatToString(-v.num) ELSE NatToString(v.num))
    ELSE IF v = NaN THEN "NaN"
    ELSE IF v = Null THEN "null"
    ELSE "undefined"

\* { ...a, ...b }: the later fields win
Spread(a, b) == b @@ a

\* String.prototype.toUpperCase on the symbols and currencies of the model
ToUpperCase(s) ==
    CASE s = "btc" -> "BTC"
      [] s = "eth" -> "ETH"
      [] s = "usd" -> "USD"
      [] s = "eur" -> "EUR"
      [] OTHER -> s

----------------------------------------------------------------------------
(* The caches: Map.get and Map.set *)

\* mutant: the first write for a key wins, later ones are dropped
MapSet_KeepExisting(map, key, value) ==
    [k \in DOMAIN map \cup {key} |-> IF k \in DOMAIN map THEN map[k] ELSE value]

\* mutant: a write drops the entries of the other keys
MapSet_OnlyKey(map, key, value) == [k \in {key} |-> value]

MapGet(map, key) == IF key \in DOMAIN map THEN map[key] ELSE Undefined
MapSet(map, key, value) ==
    [k \in DOMAIN map \cup {key} |-> IF k = key THEN value ELSE map[k]]

PriceCacheKey(ticker, currency) == ticker \o ":" \o currency
HistoryCacheKey(ticker, days, interval) ==
    ticker \o ":usd:" \o TemplateStr(days) \o ":" \o interval
SpotCacheKey(ticker) == ticker \o ":usd"

\* mutant: an entry whose age equals the TTL still counts as fresh
IsCacheFresh_Inclusive(cached, ttl) ==
    cached # Undefined /\ now - cached.timestamp <= ttl

\* cached && Date.now() - cached.timestamp < TTL
IsCacheFresh(cached, ttl) ==
    cached # Undefined /\ now - cached.timestamp < ttl

----------------------------------------------------------------------------
(* Upstream answers *)

AxiosError(status) == [response |-> [status |-> status, data |-> [code |-> status]]]
\* a timeout or network failure: an error with no response
NoResponseError == [response |-> Undefined, code |-> "ECONNABORTED"]
\* an exception thrown by the handler's own code: no response either
TypeError == [response |-> Undefined, name |-> "TypeError"]

FailureStatuses == {429, 401, 403, 503}

UpstreamErrors == {AxiosError(s) : s \in FailureStatuses} \cup {NoResponseError}

\* error.response?.status || 500
StatusOf(err) ==
    IF err.response = Undefined THEN 500
    ELSE IF err.response.status # 0 THEN err.response.status ELSE 500

\* error.response?.data || null
DetailsOf(err) ==
    IF err.response = Undefined THEN Null ELSE err.response.data

\* Kline fields: [openTime, open, high, low, close, volume, closeTime, quoteVolume]
KlineRowA ==
    <<1000, Str(<<"8", "5">>), Str(<<"9", "0">>), Str(<<"8", "0">>),
      Str(<<"8", "6">>), Str(<<"3">>), 1999, Str(<<"7">>)>>
KlineRowB ==
    <<2000, Str(<<"8", "6">>), Str(<<"9", "1">>), Str(<<"8", "1">>),
      Str(<<"8", "7">>), Str(<<"4">>), 2999, Str(<<"1", "2">>)>>

\* response.data of a successful klines call: an array of rows, null, or a
\* JSON object that is not an array
KlineBodies ==
    {[rows |-> <<>>], [rows |-> <<KlineRowA>>], [rows |-> <<KlineRowA, KlineRowB>>],
     Null, [object |-> TRUE]}

\* response.data of a successful price call (ticker/price or avgPrice)
PriceBodies ==
    {[symbol |-> Str(<<"X">>), price |-> Str(<<"8", "8", "0", "0", "0">>)],
     [mins |-> Num(5), price |-> Str(<<"8", "7", "5", "0", "0">>)],
     [msg |-> Str(<<"?">>)]}

Success(data) == [ok |-> TRUE, data |-> data]
Failure(err) == [ok |-> FALSE, error |-> err]

KlineOutcomes ==
    {Success(d) : d \in KlineBodies} \cup {Failure(e) : e \in UpstreamErrors}
PriceOutcomes ==
    {Success(d) : d \in PriceBodies} \cup {Failure(e) : e \in UpstreamErrors}

----------------------------------------------------------------------------
(* Requests: the query strings callers send *)

SymbolParams == {"btc", "ETH", "DOGE"}
DaysParams == {<<"1">>}
IntervalParams == {"", "daily"}
CurrencyParams == {"usd", "EUR"}

HistoryQueries ==
    [symbol : SymbolParams, days : DaysParams, interval : IntervalParams]
PriceQueries == [symbol : SymbolParams, currency : CurrencyParams]

NoResponse == [none |-> TRUE]

Init ==
    /\ now = 0
    /\ ticks = 0
    /\ MOCK_HISTORY \in BOOLEAN
    /\ priceCache = <<>>
    /\ historyCache = <<>>
    /\ inflight = {}
    /\ last = NoResponse
    /\ nReq = 0
    /\ writes = <<>>

\* mutant: the answered request stays suspended
Respond_StaysSuspended(old, r, status, body) ==
    /\ last' = [req |-> r, status |-> status, body |-> body]
    /\ inflight' = inflight

\* res.status(status).json(body), which ends the request
Respond(old, r, status, body) ==
    /\ last' = [req |-> r, status |-> status, body |-> body]
    /\ inflight' = inflight \ {old}

\* a step in which no response is sent
Silent == last' = NoResponse

\* the handler suspends at an awaited upstream call
Await(old, r) == inflight' = (inflight \ {old}) \cup {r}

\* a cache write is recorded with its key, its request and Date.now()
Written(r) == writes' = Append(writes, [key |-> r.cacheKey, id |-> r.id, at |-> now])

Called(r, call) == [r EXCEPT !.calls = Append(@, call)]
Touched(r, op) == [r EXCEPT !.cacheOps = Append(@, op)]

----------------------------------------------------------------------------
(* GET /history *)

\* mutant: the demonstration series loses its first point
MockPoints_FivePoints ==
    << [t |-> now - 3 * 60 * 60 * 1000, price |-> Num(86500)],
       [t |-> now - 2 * 60 * 60 * 1000, price |-> Num(86200)],
       [t |-> now - 1 * 60 * 60 * 1000, price |-> Num(87000)],
       [t |-> now - 30 * 60 * 1000, price |-> Num(88500)],
       [t |-> now, price |-> Num(88800)] >>

MockPoints ==
    << [t |-> now - 4 * 60 * 60 * 1000, price |-> Num(86000)],
       [t |-> now - 3 * 60 * 60 * 1000, price |-> Num(86500)],
       [t |-> now - 2 * 60 * 60 * 1000, price |-> Num(86200)],
       [t |-> now - 1 * 60 * 60 * 1000, price |-> Num(87000)],
       [t |-> now - 30 * 60 * 1000, price |-> Num(88500)],
       [t |-> now, price |-> Num(88800)] >>

MockBody(symbol, days, interval) ==
    [symbol |-> symbol, days |-> days, interval |-> interval,
     points |-> MockPoints, volume24h |-> Num(2500000),
     source |-> "mock-history", cached |-> TRUE,
     warning |-> "MOCK_HISTORY enabled; serving demo data."]

BinanceInterval(interval) ==
    IF interval = "hourly" THEN "1h" ELSE IF interval = "daily" THEN "1d" ELSE "1h"

\* mutant: the hourly row limit is not capped
Limit_HourlyUncapped(days, binanceInterval) ==
    IF binanceInterval = "1h"
    THEN Mul(Number(Or(days, Num(1))), Num(24))
    ELSE MathMin(Number(Or(days, Num(1))), Num(1000))

Limit(days, binanceInterval) ==
    IF binanceInterval = "1h"
    THEN MathMin(Mul(Number(Or(days, Num(1))), Num(24)), Num(1000))
    ELSE MathMin(Number(Or(days, Num(1))), Num(1000))

\* mutant: the point takes the row's open price (field 1) for its close
Series_OpenPrice(klines) ==
    [i \in 1..Len(klines) |-> [t |-> klines[i][1], price |-> Number(klines[i][2])]]

\* klines.map((k) => ({ t: k[0], price: Number(k[4]) }))
Series(klines) ==
    [i \in 1..Len(klines) |-> [t |-> klines[i][1], price |-> Number(klines[i][5])]]

\* klines.reduce((sum, k) => sum + Number(k[7] || 0), 0)
RECURSIVE ReduceQuoteVolume(_)
ReduceQuoteVolume(klines) ==
    IF klines = <<>> THEN Num(0)
    ELSE Add(ReduceQuoteVolume(SubSeq(klines, 1, Len(klines) - 1)),
             Number(Or(klines[Len(klines)][8], Num(0))))

Volume24h(klines) == IF Len(klines) # 0 THEN ReduceQuoteVolume(klines) ELSE Null

HistorySource(r) ==
    HISTORY_API_BASE \o "?symbol=" \o r.ticker \o "&interval=" \o r.binanceInterval
        \o "&limit=" \o TemplateStr(r.limit)

HistoryPayload(r, klines) ==
    [symbol |-> r.symbol, days |-> r.days, interval |-> r.interval,
     points |-> Series(klines), volume24h |-> Volume24h(klines),
     source |-> HistorySource(r)]

StaleWarning(status) ==
    IF status = 429
    THEN "Upstream rate limit hit, serving cached history."
    ELSE "Upstream rejected request, serving cached history. Set API_KEY if needed."

\* mutant: the rate-limit status is left out of the stale-serving statuses
ServesStale_RejectedOnly(status) == status = 401 \/ status = 403

\* mutant: the cached entry is served whatever the failure status
ServesStale_AnyStatus(status) == TRUE

\* the statuses for which the catch block serves the cached entry
ServesStale(status) == status = 429 \/ status = 401 \/ status = 403

\* Array.from({ length: 12 }, (_, idx) => ({ t: now - (11 - idx) * 5 * 60 * 1000, price }))
FlatPoints(price) ==
    [i \in 1..12 |-> [t |-> now - (11 - (i - 1)) * 5 * 60 * 1000, price |-> price]]

FlatBody(r, spot) ==
    [symbol |-> r.symbol, days |-> r.days, interval |-> r.interval,
     points |-> FlatPoints(spot.price), volume24h |-> Null,
     source |-> HISTORY_API_BASE \o " (fallback)", cached |-> TRUE,
     warning |-> "Upstream rate limit hit, serving flat fallback from latest spot."]

\* spot?.price
SpotPrice(spot) == IF spot = Undefined THEN Undefined ELSE spot.price

\* mutant: a 401 without cache entry gets the generic error
HistoryCatch_NoUnauthorized(old, r, error) ==
    LET status == StatusOf(error)
        e == [r EXCEPT !.errs = Append(@, error)]
        spot == MapGet(priceCache, SpotCacheKey(r.ticker))
    IN  /\ UNCHANGED <<priceCache, historyCache, writes>>
        /\ IF ServesStale(status) /\ r.cached # Undefined
           THEN Respond(old, e, 200,
                    Spread(r.cached.payload,
                           [cached |-> TRUE, warning |-> StaleWarning(status)]))
           ELSE IF status = 429 /\ r.cached = Undefined
           THEN IF Truthy(SpotPrice(spot))
                THEN Respond(old, Touched(e, "priceCache.get"), 200, FlatBody(r, spot))
                ELSE Respond(old, Touched(e, "priceCache.get"), status,
                         [error |-> "History request failed",
                          details |-> DetailsOf(error)])
           ELSE Respond(old, e, status,
                    [error |-> "History request failed", details |-> DetailsOf(error)])

\* the catch block of /history (lines 140-187)
HistoryCatch(old, r, error) ==
    LET status == StatusOf(error)
        e == [r EXCEPT !.errs = Append(@, error)]
        spot == MapGet(priceCache, SpotCacheKey(r.ticker))
    IN  /\ UNCHANGED <<priceCache, historyCache, writes>>
        /\ IF ServesStale(status) /\ r.cached # Undefined
           THEN Respond(old, e, 200,
                    Spread(r.cached.payload,
                           [cached |-> TRUE, warning |-> StaleWarning(status)]))
           ELSE IF status = 429 /\ r.cached = Undefined
           THEN IF Truthy(SpotPrice(spot))
                THEN Respond(old, Touched(e, "priceCache.get"), 200, FlatBody(r, spot))
                ELSE Respond(old, Touched(e, "priceCache.get"), status,
                         [error |-> "History request failed",
                          details |-> DetailsOf(error)])
           ELSE IF status = 401
           THEN Respond(old, e, 401,
                    [error |-> "Unauthorized with upstream. Provide API_KEY if required by provider.",
                     details |-> DetailsOf(error)])
           ELSE Respond(old, e, status,
                    [error |-> "History request failed", details |-> DetailsOf(error)])

\* mutant: an empty series is cached and answered like any other
HistoryFetched_NoEmptyCheck(r, data) ==
    IF data # Null /\ "object" \in DOMAIN data
    THEN \* klines.map is not a function: a TypeError, which has no response
         HistoryCatch(r, [r EXCEPT !.data = data], TypeError)
    ELSE LET klines == IF data = Null THEN <<>> ELSE data.rows
             payload == HistoryPayload(r, klines)
             f == [r EXCEPT !.data = data]
         IN  IF FALSE
             THEN /\ Respond(r, f, 502, [error |-> "History not available"])
                  /\ UNCHANGED <<priceCache, historyCache, writes>>
             ELSE /\ historyCache' =
                        MapSet(historyCache, r.cacheKey,
                               [payload |-> payload, timestamp |-> now])
                  /\ Respond(r, Touched(f, "historyCache.set"), 200, payload)
                  /\ Written(r)
                  /\ UNCHANGED priceCache

\* lines 113-139, after a klines call has answered
HistoryFetched(r, data) ==
    IF data # Null /\ "object" \in DOMAIN data
    THEN \* klines.map is not a function: a TypeError, which has no response
         HistoryCatch(r, [r EXCEPT !.data = data], TypeError)
    ELSE LET klines == IF data = Null THEN <<>> ELSE data.rows
             payload == HistoryPayload(r, klines)
             f == [r EXCEPT !.data = data]
         IN  IF Len(Series(klines)) = 0
             THEN /\ Respond(r, f, 502, [error |-> "History not available"])
                  /\ UNCHANGED <<priceCache, historyCache, writes>>
             ELSE /\ historyCache' =
                        MapSet(historyCache, r.cacheKey,
                               [payload |-> payload, timestamp |-> now])
                  /\ Respond(r, Touched(f, "historyCache.set"), 200, payload)
                  /\ Written(r)
                  /\ UNCHANGED priceCache

KlinesCall(ticker, interval, limit) ==
    [url |-> HISTORY_API_BASE,
     params |-> [symbol |-> ticker, interval |-> interval, limit |-> limit]]

\* request entry up to the first await (lines 45-102)
HistoryRequest(q) ==
    LET symbol == ToUpperCase(IF q.symbol = "" THEN "BTC" ELSE q.symbol)
        days == IF q.days = <<>> THEN Num(1) ELSE Str(q.days)
        interval == IF q.interval = "" THEN "hourly" ELSE q.interval
        known == symbol \in DOMAIN symbolToId
        ticker == IF known THEN symbolToId[symbol] ELSE "undefined"
        cacheKey == HistoryCacheKey(ticker, days, interval)
        cached == MapGet(historyCache, cacheKey)
        binanceInterval == BinanceInterval(interval)
        limit == Limit(days, binanceInterval)
        r0 == [id |-> nReq + 1, kind |-> "history", symbol |-> symbol, days |-> days,
               interval |-> interval, ticker |-> ticker, cacheKey |-> cacheKey,
               cached |-> Undefined, binanceInterval |-> binanceInterval,
               limit |-> limit, pc |-> "entry", calls |-> <<>>, errs |-> <<>>,
               cacheOps |-> <<>>, data |-> Undefined]
        r1 == [Touched(r0, "historyCache.get") EXCEPT !.cached = cached]
    IN  /\ nReq < MaxRequests
        /\ nReq' = nReq + 1
        /\ UNCHANGED <<now, ticks, MOCK_HISTORY, priceCache, historyCache, writes>>
        /\ IF MOCK_HISTORY
           THEN Respond(r0, r0, 200, MockBody(symbol, days, interval))
           ELSE IF ~known
           THEN Respond(r0, r0, 400, [error |-> "Unsupported symbol"])
           ELSE IF IsCacheFresh(cached, HISTORY_CACHE_TTL_MS)
           THEN Respond(r1, r1, 200, Spread(cached.payload, [cached |-> TRUE]))
           ELSE /\ Cardinality(inflight) < MaxInFlight
                /\ Await(r0, [Called(r1, KlinesCall(ticker, binanceInterval, limit))
                                 EXCEPT !.pc = "primary"])
                /\ Silent

\* mutant: the degraded retry follows every failure of the primary call
HistoryPrimaryDone_RetryOnAnyFailure(r, outcome) ==
    /\ r.kind = "history" /\ r.pc = "primary"
    /\ UNCHANGED <<now, ticks, MOCK_HISTORY, nReq>>
    /\ IF outcome.ok
       THEN HistoryFetched(r, outcome.data)
       ELSE /\ Await(r, [Called([r EXCEPT !.errs = Append(@, outcome.error)],
                                KlinesCall(r.ticker, "1d", Num(30)))
                            EXCEPT !.pc = "degraded"])
            /\ UNCHANGED <<priceCache, historyCache, writes>>
            /\ Silent

\* the primary klines call answers (lines 102-111)
HistoryPrimaryDone(r, outcome) ==
    /\ r.kind = "history" /\ r.pc = "primary"
    /\ UNCHANGED <<now, ticks, MOCK_HISTORY, nReq>>
    /\ IF outcome.ok
       THEN HistoryFetched(r, outcome.data)
       ELSE IF StatusOf(outcome.error) = 429
            THEN \* retry with a lighter interval
                 /\ Await(r, [Called([r EXCEPT !.errs = Append(@, outcome.error)],
                                     KlinesCall(r.ticker, "1d", Num(30)))
                                 EXCEPT !.pc = "degraded"])
                 /\ UNCHANGED <<priceCache, historyCache, writes>>
                 /\ Silent
            ELSE HistoryCatch(r, r, outcome.error)

\* the degraded klines call answers (line 107)
HistoryDegradedDone(r, outcome) ==
    /\ r.kind = "history" /\ r.pc = "degraded"
    /\ UNCHANGED <<now, ticks, MOCK_HISTORY, nReq>>
    /\ IF outcome.ok
       THEN HistoryFetched(r, outcome.data)
       ELSE HistoryCatch(r, r, outcome.error)

----------------------------------------------------------------------------
(* GET /price *)

\* response.data?.field
Field(data, f) ==
    IF data = Null \/ data = Undefined THEN Undefined
    ELSE IF f \in DOMAIN data THEN data[f] ELSE Undefined

\* Number(response.data?.price || response.data?.priceAvg || response.data?.avgPrice)
PriceOf(data) ==
    Number(Or(Or(Field(data, "price"), Field(data, "priceAvg")), Field(data, "avgPrice")))

\* mutant: the payload is stamped with the time the process started
PricePayload_StartTime(r, price) ==
    [symbol |-> r.symbol, currency |-> ToUpperCase(r.currency), price |-> price,
     source |-> PRICE_API_BASE, timestamp |-> 0]

PricePayload(r, price) ==
    [symbol |-> r.symbol, currency |-> ToUpperCase(r.currency), price |-> price,
     source |-> PRICE_API_BASE, timestamp |-> now]

\* mutant: a fetched price is stored in the history cache as well
PriceFetched_WritesBothCaches(r, data) ==
    LET price == PriceOf(data)
        payload == PricePayload(r, price)
        f == [r EXCEPT !.data = data]
    IN  IF price = Undefined
        THEN /\ Respond(r, f, 502, [error |-> "Price not available"])
             /\ UNCHANGED <<priceCache, historyCache, writes>>
        ELSE /\ priceCache' = MapSet(priceCache, r.cacheKey, payload)
             /\ Respond(r, Touched(f, "priceCache.set"), 200, payload)
             /\ Written(r)
             /\ historyCache' =
                   MapSet(historyCache, r.cacheKey, [payload |-> payload, timestamp |-> now])

\* lines 226-242, after a price call has answered
PriceFetched(r, data) ==
    LET price == PriceOf(data)
        payload == PricePayload(r, price)
        f == [r EXCEPT !.data = data]
    IN  IF price = Undefined
        THEN /\ Respond(r, f, 502, [error |-> "Price not available"])
             /\ UNCHANGED <<priceCache, historyCache, writes>>
        ELSE /\ priceCache' = MapSet(priceCache, r.cacheKey, payload)
             /\ Respond(r, Touched(f, "priceCache.set"), 200, payload)
             /\ Written(r)
             /\ UNCHANGED historyCache

\* mutant: the cached price is served on every failure status
PriceCatch_AnyStatus(r, error) ==
    LET status == StatusOf(error)
        e == [r EXCEPT !.errs = Append(@, error)]
    IN  /\ UNCHANGED <<priceCache, historyCache, writes>>
        /\ IF r.cached # Undefined
           THEN Respond(r, e, 200,
                    Spread(r.cached,
                           [cached |-> TRUE,
                            warning |-> "Upstream rate limit hit, serving cached price."]))
           ELSE Respond(r, e, status,
                    [error |-> "Upstream request failed", details |-> DetailsOf(error)])

\* the catch block of /price (lines 243-259)
PriceCatch(r, error) ==
    LET status == StatusOf(error)
        e == [r EXCEPT !.errs = Append(@, error)]
    IN  /\ UNCHANGED <<priceCache, historyCache, writes>>
        /\ IF status = 429 /\ r.cached # Undefined
           THEN Respond(r, e, 200,
                    Spread(r.cached,
                           [cached |-> TRUE,
                            warning |-> "Upstream rate limit hit, serving cached price."]))
           ELSE Respond(r, e, status,
                    [error |-> "Upstream request failed", details |-> DetailsOf(error)])

PriceCall(url, ticker) == [url |-> url, params |-> [symbol |-> ticker]]

\* mutant: the currency check is missing
PriceRequest_NoCurrencyCheck(q) ==
    LET symbol == ToUpperCase(IF q.symbol = "" THEN "BTC" ELSE q.symbol)
        currency == ToUpperCase(IF q.currency = "" THEN "USD" ELSE q.currency)
        known == symbol \in DOMAIN symbolToId
        ticker == IF known THEN symbolToId[symbol] ELSE "undefined"
        cacheKey == PriceCacheKey(ticker, currency)
        cached == MapGet(priceCache, cacheKey)
        r0 == [id |-> nReq + 1, kind |-> "price", symbol |-> symbol,
               currency |-> currency, ticker |-> ticker, cacheKey |-> cacheKey,
               cached |-> Undefined, pc |-> "entry", calls |-> <<>>, errs |-> <<>>,
               cacheOps |-> <<>>, data |-> Undefined]
        r1 == [Touched(r0, "priceCache.get") EXCEPT !.cached = cached]
    IN  /\ nReq < MaxRequests
        /\ nReq' = nReq + 1
        /\ UNCHANGED <<now, ticks, MOCK_HISTORY, priceCache, historyCache, writes>>
        /\ IF ~known
           THEN Respond(r0, r0, 400, [error |-> "Unsupported symbol"])
           ELSE IF IsCacheFresh(cached, CACHE_TTL_MS)
           THEN Respond(r1, r1, 200, Spread(cached, [cached |-> TRUE]))
           ELSE /\ Cardinality(inflight) < MaxInFlight
                /\ Await(r0, [Called(r1, PriceCall(PRICE_API_BASE, ticker))
                                 EXCEPT !.pc = "primary"])
                /\ Silent

\* request entry up to the first await (lines 190-216)
PriceRequest(q) ==
    LET symbol == ToUpperCase(IF q.symbol = "" THEN "BTC" ELSE q.symbol)
        currency == ToUpperCase(IF q.currency = "" THEN "USD" ELSE q.currency)
        known == symbol \in DOMAIN symbolToId
        ticker == IF known THEN symbolToId[symbol] ELSE "undefined"
        cacheKey == PriceCacheKey(ticker, currency)
        cached == MapGet(priceCache, cacheKey)
        r0 == [id |-> nReq + 1, kind |-> "price", symbol |-> symbol,
               currency |-> currency, ticker |-> ticker, cacheKey |-> cacheKey,
               cached |-> Undefined, pc |-> "entry", calls |-> <<>>, errs |-> <<>>,
               cacheOps |-> <<>>, data |-> Undefined]
        r1 == [Touched(r0, "priceCache.get") EXCEPT !.cached = cached]
    IN  /\ nReq < MaxRequests
        /\ nReq' = nReq + 1
        /\ UNCHANGED <<now, ticks, MOCK_HISTORY, priceCache, historyCache, writes>>
        /\ IF ~known
           THEN Respond(r0, r0, 400, [error |-> "Unsupported symbol"])
           ELSE IF currency # "USD"
           THEN Respond(r0, r0, 400,
                    [error |-> "Only USD quotes are supported in this demo."])
           ELSE IF IsCacheFresh(cached, CACHE_TTL_MS)
           THEN Respond(r1, r1, 200, Spread(cached, [cached |-> TRUE]))
           ELSE /\ Cardinality(inflight) < MaxInFlight
                /\ Await(r0, [Called(r1, PriceCall(PRICE_API_BASE, ticker))
                                 EXCEPT !.pc = "primary"])
                /\ Silent

\* mutant: a failure of the ticker/price call is surfaced without the retry
PricePrimaryDone_NoSecondary(r, outcome) ==
    /\ r.kind = "price" /\ r.pc = "primary"
    /\ UNCHANGED <<now, ticks, MOCK_HISTORY, nReq>>
    /\ IF outcome.ok
       THEN PriceFetched(r, outcome.data)
       ELSE PriceCatch(r, outcome.error)

\* the ticker/price call answers (lines 211-224)
PricePrimaryDone(r, outcome) ==
    /\ r.kind = "price" /\ r.pc = "primary"
    /\ UNCHANGED <<now, ticks, MOCK_HISTORY, nReq>>
    /\ IF outcome.ok
       THEN PriceFetched(r, outcome.data)
       ELSE \* retry with the avgPrice endpoint, whatever the failure
            /\ Await(r, [Called([r EXCEPT !.errs = Append(@, outcome.error)],
                                PriceCall(AVG_PRICE_URL, r.ticker))
                            EXCEPT !.pc = "secondary"])
            /\ UNCHANGED <<priceCache, historyCache, writes>>
                 /\ Silent

\* the avgPrice call answers (lines 219-224)
PriceSecondaryDone(r, outcome) ==
    /\ r.kind = "price" /\ r.pc = "secondary"
    /\ UNCHANGED <<now, ticks, MOCK_HISTORY, nReq>>
    /\ IF outcome.ok
       THEN PriceFetched(r, outcome.data)
       ELSE PriceCatch(r, outcome.error)

----------------------------------------------------------------------------
(* Time passes between two handler runs *)

ClockSteps == {30000, 270000}

Tick ==
    /\ ticks < MaxTicks
    /\ \E d \in ClockSteps : now' = now + d
    /\ ticks' = ticks + 1
    /\ Silent
    /\ UNCHANGED <<MOCK_HISTORY, priceCache, historyCache, inflight, nReq, writes>>

Next ==
    \/ Tick
    \/ \E q \in HistoryQueries : HistoryRequest(q)
    \/ \E r \in inflight, o \in KlineOutcomes : HistoryPrimaryDone(r, o)
    \/ \E r \in inflight, o \in KlineOutcomes : HistoryDegradedDone(r, o)
    \/ \E q \in PriceQueries : PriceRequest(q)
    \/ \E r \in inflight, o \in PriceOutcomes : PricePrimaryDone(r, o)
    \/ \E r \in inflight, o \in PriceOutcomes : PriceSecondaryDone(r, o)

Spec == Init /\ [][Next]_vars

\* the upstream call the request with this id waits for resolves or is
\* rejected; every axios call carries timeout: 5000
Resolves(id) ==
    \E r \in inflight :
        /\ r.id = id
        /\ \/ \E o \in KlineOutcomes : HistoryPrimaryDone(r, o) \/ HistoryDegradedDone(r, o)
           \/ \E o \in PriceOutcomes : PricePrimaryDone(r, o) \/ PriceSecondaryDone(r, o)

\* every upstream call eventually resolves or times out
FairSpec == Spec /\ \A id \in 1..MaxRequests : WF_vars(Resolves(id))

----------------------------------------------------------------------------
(* /history requests over a wider range of days and interval parameters *)

LimitDays ==
    {<<>>, <<"0">>, <<"1">>, <<"4", "1">>, <<"4", "2">>,
     <<"1", "0", "0", "0">>, <<"1", "0", "0", "1">>, <<"x">>}
LimitIntervals == {"", "hourly", "daily", "weekly"}

LimitQueries == [symbol : {"btc"}, days : LimitDays, interval : LimitIntervals]

LimitNext ==
    \/ \E q \in LimitQueries : HistoryRequest(q)
    \/ \E r \in inflight, o \in KlineOutcomes : HistoryPrimaryDone(r, o)
    \/ \E r \in inflight, o \in KlineOutcomes : HistoryDegradedDone(r, o)

LimitSpec == Init /\ [][LimitNext]_vars

----------------------------------------------------------------------------
(* Vocabulary of the properties *)

Responded == last # NoResponse

\* the body carries every field of the payload, unchanged
CarriesPayload(body, payload) ==
    \A f \in DOMAIN payload : f \in DOMAIN body /\ body[f] = payload[f]

HasField(body, f) == f \in DOMAIN body

\* the status an upstream error carries; 0 stands for an error without response
UpstreamStatus(err) == IF err.response = Undefined THEN 0 ELSE err.response.status

\* every upstream call the request made has failed (with an error of the
\* upstream call, not an exception of the handler's own code)
FetchFailed(r) ==
    /\ Len(r.calls) > 0
    /\ Len(r.errs) = Len(r.calls)
    /\ \A i \in 1..Len(r.errs) : r.errs[i] \in UpstreamErrors

\* the error that ended the request's fetching
FinalError(r) == r.errs[Len(r.errs)]

\* the status sent to the caller for an upstream error
SurfacedStatus(err) == IF UpstreamStatus(err) = 0 THEN 500 ELSE UpstreamStatus(err)

\* the body is the cached payload, marked cached and with a warning
IsStaleAnswer(res, payload) ==
    /\ res.status = 200
    /\ CarriesPayload(res.body, payload)
    /\ HasField(res.body, "cached") /\ res.body.cached = TRUE
    /\ HasField(res.body, "warning")

\* the body is an error with the upstream error body as details
IsErrorAnswer(res, err) ==
    /\ res.status = SurfacedStatus(err)
    /\ HasField(res.body, "error")
    /\ ~HasField(res.body, "points") /\ ~HasField(res.body, "price")
    /\ res.body.details = (IF err.response = Undefined THEN Null ELSE err.response.data)

\* every upstream call the request made has failed with the given status
AllFailedWith(r, status) ==
    /\ FetchFailed(r)
    /\ \A i \in 1..Len(r.errs) : UpstreamStatus(r.errs[i]) = status

FiveMinutes == 300000

\* 12 points at the given price, 5 minutes apart, the last one at time t
IsFlatSeries(body, price, t) ==
    /\ HasField(body, "points")
    /\ Len(body.points) = 12
    /\ \A i \in 1..12 : body.points[i].price = price
    /\ \A i \in 1..11 : body.points[i + 1].t - body.points[i].t = FiveMinutes
    /\ body.points[12].t = t
    /\ body.volume24h = Null

----------------------------------------------------------------------------
(* C1: when both kline calls of a /history request fail with 429, the       *)
(* history cache has no entry for its key and the price cache holds an      *)
(* entry of price P for the same symbol (written by a /price request), the  *)
(* response is a success with 12 points of price P, 5 minutes apart, the    *)
(* last one at the time of the response, and volume24h = null.              *)

C1_FlatFallbackFromSpot ==
    \A k \in DOMAIN priceCache :
        ( /\ Responded
          /\ last.req.kind = "history"
          /\ Len(last.req.calls) = 2
          /\ AllFailedWith(last.req, 429)
          /\ last.req.cacheKey \notin DOMAIN historyCache
          /\ priceCache[k].symbol = last.req.symbol
          /\ IsNum(priceCache[k].price)
          /\ priceCache[k].price.num > 0 )
        => ( /\ last.status = 200
             /\ IsFlatSeries(last.body, priceCache[k].price, now) )

(* C2: when the request found a (stale) history cache entry for its key and *)
(* both the primary and the degraded kline call fail with 429, the response *)
(* is a success carrying the cached payload, cached = true and the          *)
(* rate-limit warning; no 429 reaches the caller.                           *)

C2_StaleServedOnRateLimit ==
    ( /\ Responded
      /\ last.req.kind = "history"
      /\ last.req.cached # Undefined
      /\ Len(last.req.calls) = 2
      /\ AllFailedWith(last.req, 429) )
    => ( /\ last.status = 200
         /\ CarriesPayload(last.body, last.req.cached.payload)
         /\ HasField(last.body, "cached") /\ last.body.cached = TRUE
         /\ HasField(last.body, "warning")
         /\ last.body.warning = "Upstream rate limit hit, serving cached history." )

C2_Witness ==
    /\ Responded
    /\ last.req.kind = "history"
    /\ last.req.cached # Undefined
    /\ now - last.req.cached.timestamp > HISTORY_CACHE_TTL_MS
    /\ Len(last.req.calls) = 2
    /\ AllFailedWith(last.req, 429)
    /\ last.status = 200

(* C3, as claimed: whenever the upstream fetching of a /history request     *)
(* ends in failure, whatever the status, and the request found a cache      *)
(* entry for its key, it is answered with that entry (cached = true and a   *)
(* warning); an upstream error is surfaced only without a cache entry.      *)

C4_PriceFailureAnswer ==
    ( /\ Responded
      /\ last.req.kind = "price"
      /\ FetchFailed(last.req) )
    => IF UpstreamStatus(FinalError(last.req)) = 429 /\ last.req.cached # Undefined
       THEN /\ IsStaleAnswer(last, last.req.cached)
            /\ last.body.warning = "Upstream rate limit hit, serving cached price."
       ELSE /\ IsErrorAnswer(last, FinalError(last.req))
            /\ last.body.error = "Upstream request failed"

C4_Witness ==
    /\ Responded
    /\ last.req.kind = "price"
    /\ FetchFailed(last.req)
    /\ UpstreamStatus(FinalError(last.req)) = 429
    /\ last.req.cached # Undefined
    /\ last.status = 200

TTLOf(r) == IF r.kind = "price" THEN CACHE_TTL_MS ELSE HISTORY_CACHE_TTL_MS
EntryPayload(r) == IF r.kind = "price" THEN r.cached ELSE r.cached.payload
\* the age of the entry the request read, at the present time
Age(r) == now - r.cached.timestamp

(* C5: a request that finds an entry of age w = (time of the read) - (write *)
(* time of the entry) is answered from the cache (cached = true, the        *)
(* entry's payload, no upstream call) when w < TTL of its cache, and        *)
(* dispatches an upstream call when w >= TTL.                               *)

C5_FreshWithinTTL ==
    /\ \A k \in DOMAIN priceCache : priceCache[k].timestamp <= now
    /\ \A k \in DOMAIN historyCache : historyCache[k].timestamp <= now
    \* a request that was suspended at an upstream call had read no fresh entry
    /\ \A r \in inflight :
          r.cached # Undefined => Age(r) >= TTLOf(r) /\ Len(r.calls) >= 1
    \* a request answered in the run in which it read the cache
    /\ (Responded /\ last.req.cached # Undefined /\ last.req.calls = <<>>)
          => /\ Age(last.req) < TTLOf(last.req)
             /\ last.status = 200
             /\ CarriesPayload(last.body, EntryPayload(last.req))
             /\ HasField(last.body, "cached") /\ last.body.cached = TRUE
             /\ ~HasField(last.body, "warning")

C5_Witness ==
    /\ Responded
    /\ last.req.kind = "history"
    /\ last.req.cached # Undefined
    /\ Age(last.req) > CACHE_TTL_MS
    /\ Age(last.req) < HISTORY_CACHE_TTL_MS
    /\ last.req.calls = <<>>
    /\ last.body.cached = TRUE

(* C6: a symbol of the table never gets the Unsupported-symbol error, and   *)
(* a symbol outside the table gets 400 Unsupported symbol from /price and   *)
(* from /history, under every configuration, with no cache access and no    *)
(* upstream call made for the request.                                      *)

C6_UnsupportedSymbolRejected ==
    /\ \A r \in inflight : r.symbol \in DOMAIN symbolToId
    /\ Responded =>
          IF last.req.symbol \in DOMAIN symbolToId
          THEN ~(last.status = 400 /\ last.body.error = "Unsupported symbol")
          ELSE /\ last.status = 400
               /\ HasField(last.body, "error")
               /\ last.body.error = "Unsupported symbol"
               /\ last.req.calls = <<>>
               /\ last.req.cacheOps = <<>>

MockPrices == <<86000, 86500, 86200, 87000, 88500, 88800>>
MockOffsets == <<14400000, 10800000, 7200000, 3600000, 1800000, 0>>

(* C7: with mock mode on, every /history request is answered with the fixed *)
(* 6-point demonstration series and source "mock-history", with no upstream *)
(* call and no cache read or write.                                         *)

C7_MockServesDemoSeries ==
    MOCK_HISTORY =>
        /\ \A r \in inflight : r.kind # "history"
        /\ historyCache = <<>>
        /\ (Responded /\ last.req.kind = "history") =>
              /\ last.status = 200
              /\ last.body.source = "mock-history"
              /\ Len(last.body.points) = 6
              /\ \A i \in 1..6 :
                    /\ last.body.points[i].price = Num(MockPrices[i])
                    /\ last.body.points[i].t = now - MockOffsets[i]
              /\ last.req.calls = <<>>
              /\ last.req.cacheOps = <<>>

C7_Witness ==
    /\ MOCK_HISTORY
    /\ Responded
    /\ last.req.kind = "history"
    /\ last.req.symbol = "ETH"
    /\ DOMAIN priceCache # {}
    /\ now > 0
    /\ last.body.source = "mock-history"

RECURSIVE Pow10(_)
Pow10(n) == IF n = 0 THEN 1 ELSE 10 * Pow10(n - 1)

RECURSIVE PositionalValue(_, _)
PositionalValue(cs, i) ==
    IF i > Len(cs) THEN 0
    ELSE DigitVal[cs[i]] * Pow10(Len(cs) - i) + PositionalValue(cs, i + 1)

\* the number a decimal string denotes
DecimalValue(v) == PositionalValue(v.str, 1)

RECURSIVE TotalQuoteVolume(_)
TotalQuoteVolume(rows) ==
    IF rows = <<>> THEN 0 ELSE DecimalValue(Head(rows)[8]) + TotalQuoteVolume(Tail(rows))

\* a success answered from a fetch, not from a cache or a fallback
IsFetchedAnswer(res) ==
    /\ res.req.kind = "history"
    /\ res.status = 200
    /\ ~HasField(res.body, "cached")

(* C8: a successful fetch of a non-empty sequence of kline rows is answered *)
(* with one point per row, in the same order, with t = field 0 and price =  *)
(* field 4 of the row, and with volume24h = the sum of the rows' field 7.   *)

C8_KlineTransform ==
    (Responded /\ IsFetchedAnswer(last)) =>
        LET rows == last.req.data.rows
            points == last.body.points
        IN  /\ Len(rows) > 0
            /\ Len(points) = Len(rows)
            /\ \A i \in 1..Len(rows) :
                  /\ points[i].t = rows[i][1]
                  /\ points[i].price = Num(DecimalValue(rows[i][5]))
            /\ last.body.volume24h = Num(TotalQuoteVolume(rows))

C8_Witness ==
    /\ Responded
    /\ IsFetchedAnswer(last)
    /\ Len(last.req.data.rows) = 2
    /\ last.body.points = <<[t |-> 1000, price |-> Num(86)], [t |-> 2000, price |-> Num(87)]>>
    /\ last.body.volume24h = Num(19)

EmptyFetch(r) ==
    r.data = Null \/ (HasField(r.data, "rows") /\ r.data.rows = <<>>)

(* C9: a kline fetch that succeeds with an empty sequence of rows is        *)
(* answered 502 'History not available' and writes no cache entry; no       *)
(* success response and no cache entry has an empty list of points.         *)

C9_EmptySeriesIsUnavailable ==
    /\ \A k \in DOMAIN historyCache : Len(historyCache[k].payload.points) > 0
    /\ (Responded /\ last.req.kind = "history") =>
          /\ last.status = 200 => Len(last.body.points) > 0
          /\ EmptyFetch(last.req) =>
                /\ last.status = 502
                /\ last.body = [error |-> "History not available"]
                /\ \A i \in 1..Len(last.req.cacheOps) :
                      last.req.cacheOps[i] # "historyCache.set"

C9_Witness ==
    /\ Responded
    /\ last.req.kind = "history"
    /\ EmptyFetch(last.req)
    /\ Len(last.req.calls) = 2
    /\ last.req.cached # Undefined
    /\ last.status = 502

UnauthorizedError == "Unauthorized with upstream. Provide API_KEY if required by provider."

\* the response was produced by the catch block as an error
IsSurfacedFailure(res) ==
    /\ res.req.kind = "history"
    /\ Len(res.req.errs) > 0
    /\ Len(res.req.errs) = Len(res.req.calls)
    /\ res.status >= 400

(* C10: a /history request whose final upstream failure has status 401 and  *)
(* that found no cache entry is answered 401 with the Unauthorized error;   *)
(* every other surfaced failure carries the generic 'History request        *)
(* failed' error with the status of the failure.                            *)

C10_UnauthorizedIsDistinct ==
    Responded =>
        /\ ( /\ last.req.kind = "history"
             /\ FetchFailed(last.req)
             /\ UpstreamStatus(FinalError(last.req)) = 401
             /\ last.req.cached = Undefined )
           => ( /\ last.status = 401
                /\ last.body.error = UnauthorizedError
                /\ last.body.details = FinalError(last.req).response.data )
        /\ ( /\ IsSurfacedFailure(last)
             /\ UpstreamStatus(FinalError(last.req)) # 401 )
           => ( /\ last.body.error = "History request failed"
                /\ last.status = SurfacedStatus(FinalError(last.req)) )

C10_Witness ==
    /\ Responded
    /\ last.req.kind = "history"
    /\ Len(last.req.errs) = 2
    /\ UpstreamStatus(FinalError(last.req)) = 401
    /\ last.req.cached = Undefined
    /\ last.status = 401
    /\ last.body.error = UnauthorizedError

----------------------------------------------------------------------------
(* C11: a /price request for a supported symbol whose currency, once        *)
(* upper-cased, is not USD is answered 400 in the run that receives it,     *)
(* with no upstream call, no cache access and both caches unchanged; the    *)
(* answer carries no price, cached or synthetic; no such request is ever    *)
(* suspended at an upstream call.                                           *)

C11_NonUsdRejected ==
    [][ /\ \A r \in inflight' : r.kind = "price" => r.currency = "USD"
        /\ ( /\ last' # NoResponse
             /\ last'.req.kind = "price"
             /\ last'.req.symbol \in DOMAIN symbolToId
             /\ last'.req.currency # "USD" )
           => ( /\ last'.status = 400
                /\ last'.body = [error |-> "Only USD quotes are supported in this demo."]
                /\ last'.req.calls = <<>>
                /\ last'.req.cacheOps = <<>>
                /\ last'.req.id = nReq + 1
                /\ UNCHANGED <<priceCache, historyCache, inflight>> ) ]_vars

C11_Witness ==
    /\ Responded
    /\ last.req.kind = "price"
    /\ last.req.symbol = "ETH"
    /\ last.req.currency = "EUR"
    /\ last.status = 400
    /\ DOMAIN priceCache # {}

----------------------------------------------------------------------------
\* the request received by the step: answered by it, or suspended by it
NewRequest ==
    IF last' # NoResponse THEN last'.req ELSE CHOOSE x \in inflight' : x.id = nReq'

\* the request passes the checks that precede the cache read
PassesValidation(r) ==
    /\ r.symbol \in DOMAIN symbolToId
    /\ IF r.kind = "price" THEN r.currency = "USD" ELSE ~MOCK_HISTORY

\* the entry the cache of the request's endpoint holds for its key
CurrentEntry(r) ==
    IF r.kind = "price" THEN MapGet(priceCache, r.cacheKey)
    ELSE MapGet(historyCache, r.cacheKey)

\* the same entry after the step
EntryAfter(r) ==
    IF r.kind = "price" THEN MapGet(priceCache', r.cacheKey)
    ELSE MapGet(historyCache', r.cacheKey)

\* the entry a request stores for the body it answers with
EntryOf(res, t) ==
    IF res.req.kind = "price" THEN res.body ELSE [payload |-> res.body, timestamp |-> t]

\* the step answers a request from a successful upstream call
FetchSucceeds ==
    /\ last' # NoResponse
    /\ last'.status = 200
    /\ Len(last'.req.calls) > 0
    /\ ~HasField(last'.body, "cached")

(* C12: a request that finds the entry of its key missing or stale          *)
(* dispatches its own upstream call, whatever requests for the same key are *)
(* already suspended; every request answered from a successful upstream     *)
(* call writes the cache, and after its write the entry of its key is the   *)
(* one it wrote, so the entry left is that of the call that completed last; *)
(* no other step changes a cache.                                           *)

C12_NoCoalescing ==
    [][ /\ ( /\ nReq' = nReq + 1
             /\ PassesValidation(NewRequest)
             /\ ~IsCacheFresh(CurrentEntry(NewRequest), TTLOf(NewRequest)) )
           => ( /\ inflight' = inflight \cup {NewRequest}
                /\ NewRequest \notin inflight
                /\ Len(NewRequest.calls) = 1 )
        /\ FetchSucceeds
           => ( /\ writes' = Append(writes, [key |-> last'.req.cacheKey,
                                              id |-> last'.req.id, at |-> now])
                /\ EntryAfter(last'.req) = EntryOf(last', now) )
        /\ writes' = writes => UNCHANGED <<priceCache, historyCache>> ]_vars

\* two overlapping requests for one key have both written, the earlier first
C12_Witness ==
    /\ Len(writes) = 2
    /\ writes[1].key = writes[2].key
    /\ writes[1].id = 1 /\ writes[2].id = 2
    /\ Responded
    /\ last.req.id = 2
    /\ last.req.cached = Undefined
    /\ CurrentEntry(last.req) = EntryOf(last, now)
    /\ last.req.kind = "history"

----------------------------------------------------------------------------
Suspended(id) == \E r \in inflight : r.id = id
Answered(id) == Responded /\ last.req.id = id

SuspendedAfter(id) == \E r \in inflight' : r.id = id
AnsweredBy(id) == last' # NoResponse /\ last'.req.id = id

\* the step sends at most one response, to a request it thereby ends: one
\* it received itself or one that was suspended; a request leaves the
\* suspended ones only by being answered, and a received request is either
\* answered or suspended
OneResponse ==
    /\ last' # NoResponse =>
          /\ ~SuspendedAfter(last'.req.id)
          /\ \/ Suspended(last'.req.id)
             \/ nReq' = nReq + 1 /\ last'.req.id = nReq + 1
    /\ \A id \in 1..MaxRequests :
          /\ (Suspended(id) /\ ~SuspendedAfter(id)) => AnsweredBy(id)
          /\ (~Suspended(id) /\ SuspendedAfter(id)) => nReq' = nReq + 1 /\ id = nReq + 1
    /\ nReq' = nReq + 1 => AnsweredBy(nReq + 1) \/ SuspendedAfter(nReq + 1)
    /\ nReq' = nReq \/ nReq' = nReq + 1

(* C13: every request gets exactly one response: it is answered in the run  *)
(* that receives it or suspended at an upstream call, every suspended       *)
(* request is eventually answered whatever its upstream calls return and    *)
(* whatever else is in flight, and no request is answered twice; requests   *)
(* received after a failed one are answered in the same way.                *)

C13_EveryRequestAnswered ==
    /\ [][OneResponse]_vars
    /\ \A id \in 1..MaxRequests : Suspended(id) ~> Answered(id)

\* a request fails on a timeout while a later request is still suspended
C13_Witness ==
    /\ Responded
    /\ last.req.id = 1
    /\ FetchFailed(last.req)
    /\ UpstreamStatus(FinalError(last.req)) = 0
    /\ last.status = 500
    /\ Suspended(2)

----------------------------------------------------------------------------
\* the request's fetching has failed with a status for which its handler
\* serves a cache entry
ReachesStaleFallback(r) ==
    /\ FetchFailed(r)
    /\ IF r.kind = "price" THEN UpstreamStatus(FinalError(r)) = 429
       ELSE UpstreamStatus(FinalError(r)) \in {429, 401, 403}

\* the payload held by a cache entry of the request's endpoint
PayloadOf(r, entry) == IF r.kind = "price" THEN entry ELSE entry.payload

(* C14: whenever a request reaches its stale-fallback decision after a      *)
(* failed upstream call and the cache holds an entry for its key at that    *)
(* moment, it is answered with that current entry, also when the entry was  *)
(* written by another request while its own upstream call was in flight.    *)
(* (The decision step changes no cache, so the entry at the moment of the   *)
(* decision is the entry in the state the response is sent in.)             *)

C14_FallbackUsesCurrentEntry ==
    ( /\ Responded
      /\ ReachesStaleFallback(last.req)
      /\ CurrentEntry(last.req) # Undefined )
    => IsStaleAnswer(last, PayloadOf(last.req, CurrentEntry(last.req)))

----------------------------------------------------------------------------
\* the status lets the request's handler serve a cache entry
ServedFromCacheOn(r, status) ==
    IF r.kind = "price" THEN status = 429 ELSE status \in {429, 401, 403}

(* C15: when a request makes two upstream calls and both fail, the answer   *)
(* is decided by the first failure: its status selects the fallback (the    *)
(* cached entry, or for /history the flat series), and when an error is     *)
(* surfaced it carries the first failure's status and error body.           *)

C15_FirstFailureSurfaced ==
    ( /\ Responded
      /\ FetchFailed(last.req)
      /\ Len(last.req.errs) = 2 )
    => LET first == last.req.errs[1]
       IN  \/ /\ last.req.cached # Undefined
              /\ ServedFromCacheOn(last.req, UpstreamStatus(first))
              /\ IsStaleAnswer(last, PayloadOf(last.req, last.req.cached))
           \/ /\ last.req.kind = "history"
              /\ last.req.cached = Undefined
              /\ UpstreamStatus(first) = 429
              /\ last.status = 200
              /\ HasField(last.body, "points")
           \/ /\ ~(last.req.cached # Undefined
                     /\ ServedFromCacheOn(last.req, UpstreamStatus(first)))
              /\ IsErrorAnswer(last, first)

----------------------------------------------------------------------------
\* the requests the state knows: the suspended ones and the one just answered
KnownRequests == inflight \cup (IF Responded THEN {last.req} ELSE {})

\* the request's primary upstream call has failed
PrimaryFailed(r) == Len(r.errs) >= 1 /\ r.errs[1] \in UpstreamErrors

(* C16: a /history request issues the degraded kline call (interval 1d,     *)
(* limit 30) if and only if its primary kline call failed with status 429;  *)
(* it issues it at most once, after the primary call, and never makes more  *)
(* than two upstream calls; after a primary failure with any other status   *)
(* or with no status it makes no further call and is answered.              *)

C16_DegradedIffRateLimited ==
    \A r \in KnownRequests :
        r.kind = "history" =>
            /\ Len(r.calls) <= 2
            /\ Len(r.calls) >= 1 =>
                  r.calls[1] = KlinesCall(r.ticker, BinanceInterval(r.interval),
                                          Limit(r.days, BinanceInterval(r.interval)))
            /\ Len(r.calls) = 2 <=>
                  PrimaryFailed(r) /\ UpstreamStatus(r.errs[1]) = 429
            /\ Len(r.calls) = 2 => r.calls[2] = KlinesCall(r.ticker, "1d", Num(30))
            /\ (PrimaryFailed(r) /\ UpstreamStatus(r.errs[1]) # 429) =>
                  r \notin inflight /\ Len(r.errs) = 1

C16_Witness ==
    /\ Responded
    /\ last.req.kind = "history"
    /\ last.req.interval = "hourly"
    /\ Len(last.req.calls) = 2
    /\ UpstreamStatus(last.req.errs[1]) = 429
    /\ Len(last.req.errs) = 1
    /\ last.status = 200
    /\ ~HasField(last.body, "cached")

----------------------------------------------------------------------------
\* the response reports a failure of the upstream fetching to the caller
ReportsUpstreamError(res) ==
    HasField(res.body, "error") /\ res.body.error = "Upstream request failed"

(* C17: a /price request that misses the fresh cache calls the ticker/price *)
(* endpoint exactly once, calls the avgPrice endpoint exactly once if and   *)
(* only if that call failed, whatever the failure, never makes more than    *)
(* two upstream calls, and reports an upstream error to the caller only     *)
(* after both calls have failed.                                            *)

C17_SecondaryIffPrimaryFailed ==
    /\ \A r \in KnownRequests :
          r.kind = "price" =>
              /\ Len(r.calls) <= 2
              /\ r \in inflight => Len(r.calls) >= 1
              /\ ( /\ PassesValidation(r)
                   /\ ~(r.cached # Undefined /\ Age(r) < CACHE_TTL_MS /\ r.calls = <<>>) )
                 => Len(r.calls) >= 1
              /\ Len(r.calls) >= 1 => r.calls[1] = PriceCall(PRICE_API_BASE, r.ticker)
              /\ Len(r.calls) = 2 <=> PrimaryFailed(r)
              /\ Len(r.calls) = 2 => r.calls[2] = PriceCall(AVG_PRICE_URL, r.ticker)
    /\ (Responded /\ last.req.kind = "price" /\ ReportsUpstreamError(last))
          => /\ Len(last.req.calls) = 2
             /\ Len(last.req.errs) = 2
             /\ \A i \in 1..2 : last.req.errs[i] \in UpstreamErrors

C17_Witness ==
    /\ Responded
    /\ last.req.kind = "price"
    /\ Len(last.req.calls) = 2
    /\ PrimaryFailed(last.req)
    /\ UpstreamStatus(last.req.errs[1]) = 0
    /\ Len(last.req.errs) = 1
    /\ last.status = 200
    /\ last.body.price = Num(87500)

----------------------------------------------------------------------------
\* the positions of the writes for a key
WritesOf(k) == {i \in 1..Len(writes) : writes[i].key = k}

\* the latest write for a key that has been written
LastWrite(k) == writes[CHOOSE i \in WritesOf(k) : \A j \in WritesOf(k) : j <= i]

(* C18: for every cache key the write time stored with the entry never      *)
(* decreases across successive writes, in every interleaving: the writes    *)
(* for a key carry non-decreasing times, and the time stored with the       *)
(* entry of a key is the time of its latest write.                          *)

C18_WriteTimeMonotonic ==
    /\ \A i, j \in 1..Len(writes) :
          (i < j /\ writes[i].key = writes[j].key) => writes[i].at <= writes[j].at
    /\ \A k \in DOMAIN priceCache :
          WritesOf(k) # {} /\ priceCache[k].timestamp = LastWrite(k).at
    /\ \A k \in DOMAIN historyCache :
          WritesOf(k) # {} /\ historyCache[k].timestamp = LastWrite(k).at

\* the request that started first writes after, and later than, the other
C18_Witness ==
    /\ Len(writes) = 2
    /\ writes[1].key = writes[2].key
    /\ writes[1].id = 2 /\ writes[2].id = 1
    /\ writes[1].at < writes[2].at
    /\ writes[1].key \in DOMAIN priceCache
    /\ priceCache[writes[1].key].timestamp = writes[2].at

----------------------------------------------------------------------------
\* the keys of the map keep their entries, except that the request just
\* answered from a successful fetch may have replaced the entry of its key
\* with the one it wrote
KeepsEntries(map, mapAfter, kind) ==
    /\ DOMAIN map \subseteq DOMAIN mapAfter
    /\ \A k \in DOMAIN map :
          mapAfter[k] # map[k] =>
              /\ FetchSucceeds
              /\ last'.req.kind = kind
              /\ last'.req.cacheKey = k
              /\ mapAfter[k] = EntryOf(last', now)

(* C19: a key that has an entry in the price cache or the history cache     *)
(* has one in every later state: no step removes an entry, an entry changes *)
(* only by being replaced as a whole by the entry a successful fetch for    *)
(* the same key writes, and an entry older than its TTL is still there for  *)
(* the fallback paths.                                                      *)

C19_EntriesNeverRemoved ==
    [][ /\ KeepsEntries(priceCache, priceCache', "price")
        /\ KeepsEntries(historyCache, historyCache', "history") ]_vars

\* an entry older than its TTL is served by the fallback and still cached
C19_Witness ==
    /\ Responded
    /\ last.req.kind = "price"
    /\ last.req.cached # Undefined
    /\ Age(last.req) > CACHE_TTL_MS
    /\ FetchFailed(last.req)
    /\ IsStaleAnswer(last, last.req.cached)
    /\ CurrentEntry(last.req) = last.req.cached

----------------------------------------------------------------------------
\* the upstream call whose answer the request turned into its points
ProducingCall(r) == r.calls[Len(r.calls)]

\* the source string that describes a klines call
DescribesCall(call) ==
    call.url \o "?symbol=" \o call.params.symbol \o "&interval=" \o call.params.interval
        \o "&limit=" \o TemplateStr(call.params.limit)

(* C20: every success response of a /history request answered from a       *)
(* fetch, and the entry it stores under its key (ticker, days, interval),   *)
(* holds points fetched with the upstream interval and row limit mapped     *)
(* from that interval and days, and its source field describes the call     *)
(* that produced the points, also when that call is the degraded retry.     *)

C20_EntryMatchesKey ==
    (Responded /\ IsFetchedAnswer(last)) =>
        LET r == last.req
            call == ProducingCall(r)
        IN  /\ call.params.interval = BinanceInterval(r.interval)
            /\ call.params.limit = Limit(r.days, BinanceInterval(r.interval))
            /\ last.body.interval = r.interval
            /\ last.body.source = DescribesCall(call)
            /\ historyCache[r.cacheKey].payload = last.body

----------------------------------------------------------------------------
\* the body of a successful price call carries none of the price fields
NoUsablePrice(data) ==
    /\ data # Undefined
    /\ ~Truthy(Field(data, "price"))
    /\ ~Truthy(Field(data, "priceAvg"))
    /\ ~Truthy(Field(data, "avgPrice"))

(* C21: when an upstream price call succeeds with a body that carries no    *)
(* usable price (none of price, priceAvg, avgPrice), /price answers 502     *)
(* 'Price not available' and writes nothing; every entry of the price       *)
(* cache and every success response of /price carries a numeric price.      *)

C21_NoPriceIsUnavailable ==
    /\ \A k \in DOMAIN priceCache : IsNum(priceCache[k].price)
    /\ (Responded /\ last.req.kind = "price") =>
          /\ last.status = 200 => IsNum(last.body.price)
          /\ NoUsablePrice(last.req.data) =>
                /\ last.status = 502
                /\ last.body = [error |-> "Price not available"]
                /\ \A i \in 1..Len(last.req.cacheOps) :
                      last.req.cacheOps[i] # "priceCache.set"

----------------------------------------------------------------------------
\* the map changes at most in the entry of the key
ChangesOnly(map, mapAfter, key) ==
    /\ DOMAIN mapAfter = DOMAIN map \cup {key}
    /\ \A k \in DOMAIN map \ {key} : mapAfter[k] = map[k]

(* C22: a cache is written only by the step that answers a request from a   *)
(* successful upstream fetch (for /history with at least one point), which  *)
(* writes exactly one entry, under the request's own key in the cache of    *)
(* its own endpoint; every other step, whether it answers from a fresh      *)
(* entry, a stale entry, a synthetic or mock series or with an error, or    *)
(* answers nothing, leaves both caches unchanged.                           *)

C22_CacheWriteFrame ==
    [][ IF FetchSucceeds
        THEN /\ writes' = Append(writes, [key |-> last'.req.cacheKey,
                                          id |-> last'.req.id, at |-> now])
             /\ IF last'.req.kind = "price"
                THEN /\ ChangesOnly(priceCache, priceCache', last'.req.cacheKey)
                     /\ historyCache' = historyCache
                ELSE /\ ChangesOnly(historyCache, historyCache', last'.req.cacheKey)
                     /\ priceCache' = priceCache
                     /\ Len(last'.body.points) > 0
        ELSE UNCHANGED <<priceCache, historyCache, writes>> ]_vars

\* each endpoint has written its own cache and left the other one alone
C22_Witness ==
    /\ Len(writes) = 2
    /\ writes[1].key \in DOMAIN priceCache /\ writes[1].key \notin DOMAIN historyCache
    /\ writes[2].key \in DOMAIN historyCache /\ writes[2].key \notin DOMAIN priceCache
    /\ Cardinality(DOMAIN priceCache) = 1
    /\ Cardinality(DOMAIN historyCache) = 1
    /\ Responded
    /\ last.req.kind = "history"
    /\ last.req.id = writes[2].id
    /\ historyCache[last.req.cacheKey].payload = last.body

----------------------------------------------------------------------------
\* the days parameter denotes a natural number
IsDecimal(days) ==
    \/ IsNum(days)
    \/ /\ IsStr(days)
       /\ days.str # <<>>
       /\ \A i \in 1..Len(days.str) : days.str[i] \in DOMAIN DigitVal

DaysValue(days) == IF IsNum(days) THEN days.num ELSE DecimalValue(days)

UpstreamMaximum == 1000

Capped(n) == IF n < UpstreamMaximum THEN n ELSE UpstreamMaximum

(* C23: in the primary kline call of a /history request the upstream        *)
(* interval is 1d when interval is daily and 1h when it is hourly, absent   *)
(* or unrecognised, and for every days value that denotes a number the row  *)
(* limit is min(days * 24, 1000) with 1h and min(days, 1000) with 1d; for   *)
(* no days value is the limit a number above 1000.                          *)

C23_RowLimit ==
    \A r \in KnownRequests :
        (r.kind = "history" /\ Len(r.calls) >= 1) =>
            LET params == r.calls[1].params
                n == DaysValue(r.days)
            IN  /\ params.interval = (IF r.interval = "daily" THEN "1d" ELSE "1h")
                /\ IsDecimal(r.days) =>
                      params.limit =
                          Num(Capped(IF r.interval = "daily" THEN n ELSE n * 24))
                /\ ~(IsNum(params.limit) /\ params.limit.num > UpstreamMaximum)

\* 42 days of an unrecognised interval ask for 1008 hourly rows, capped
C23_Witness ==
    \E r \in inflight :
        /\ r.kind = "history"
        /\ r.days = Str(<<"4", "2">>)
        /\ r.interval = "weekly"
        /\ r.calls[1].params.interval = "1h"
        /\ r.calls[1].params.limit = Num(1000)

====
